---- MODULE Spec2Model ----
(***************************************************************************)
(* Model of create_icon.py: convert robot_icon.svg to robot_icon_1024.png  *)
(* by trying rsvg-convert, then cairosvg, then ImageMagick convert, and    *)
(* exit according to the final existence check of the output file.         *)
(*                                                                         *)
(* The environment of one run is what each converter does when invoked     *)
(* (outcome), whether an output file is already on disk (fileExists at     *)
(* start) and whether an invoked converter writes the output file.         *)
(***************************************************************************)
EXTENDS Integers, Sequences, FiniteSets

VARIABLES
    pc,          \* position of the script: "rsvg", "cairo", "magick", "main", "done"
    outcome,     \* environment: what each converter does when it is invoked
    fileExists,  \* os.path.exists("robot_icon_1024.png")
    produced,    \* converters that wrote the output file during this run
    attempted,   \* converters invoked so far, in invocation order
    output,      \* lines printed on stdout, in order
    ret,         \* return value of create_png_from_svg (png_file of __main__)
    uncaught,    \* exception that escaped create_png_from_svg, or "none"
    exitStatus   \* process exit status, -1 while the process runs

vars == <<pc, outcome, fileExists, produced, attempted, output, ret, uncaught, exitStatus>>

----------------------------------------------------------------------------
\* Names and messages (printed lines are given without their leading emoji)

png_file == "robot_icon_1024.png"

None == "None"

Rsvg == "rsvg-convert"

Cairo == "cairosvg"

Magick == "ImageMagick"

Order == <<Rsvg, Cairo, Magick>>

Tools == {Rsvg, Cairo, Magick}

\* subprocess.run([...], check=True): returns, raises FileNotFoundError (no
\* such executable), raises CalledProcessError (non-zero exit status), or
\* raises another OSError (e.g. PermissionError: found but not executable).
SubprocessOutcomes == {"ok", "FileNotFoundError", "CalledProcessError", "PermissionError"}

\* import cairosvg; cairosvg.svg2png(...): returns, the import raises
\* ImportError, or svg2png itself raises (unreadable or malformed SVG, ...).
CairoOutcomes == {"ok", "ImportError", "Svg2PngError"}

\* A converter that ran (to success or to an error of its own) may or may not
\* have written the output file; one that never started cannot have.
MayWrite(o) ==
    IF o \in {"ok", "CalledProcessError", "Svg2PngError"} THEN BOOLEAN ELSE {FALSE}

SuccessMsgWrongTool(tool) ==
    "Created robot_icon_1024.png using rsvg-convert"

SuccessMsg(tool) ==
    CASE tool = Rsvg   -> "Created robot_icon_1024.png using rsvg-convert"
      [] tool = Cairo  -> "Created robot_icon_1024.png using cairosvg"
      [] tool = Magick -> "Created robot_icon_1024.png using ImageMagick"

FallThroughMsgNone(tool) ==
    "No suitable SVG to PNG converter found"

FallThroughMsg(tool) ==
    CASE tool = Rsvg  -> "rsvg-convert not found, trying cairosvg..."
      [] tool = Cairo -> "cairosvg not available, trying ImageMagick..."

NoSuitableMsg == "No suitable SVG to PNG converter found"

PleaseInstallMsg == "Please install one of: rsvg-convert, cairosvg, or ImageMagick"

FinalSuccessMsg == "Successfully created robot_icon_1024.png"

XcodeHintMsg == "You can now add this to your Xcode project's AppIcon asset catalog"

FailedMsg == "Failed to create PNG file"

Printed(m) == \E i \in 1..Len(output) : output[i] = m

----------------------------------------------------------------------------
\* Control flow of create_png_from_svg

\* except (subprocess.CalledProcessError, FileNotFoundError)
SubprocessCaught(o) == o \in {"CalledProcessError", "FileNotFoundError"}

\* except ImportError
CairoCaught(o) == o = "ImportError"

Caught(tool, o) == IF tool = Cairo THEN CairoCaught(o) ELSE SubprocessCaught(o)

\* a successful attempt falls through to the next try block instead of returning
AfterSuccessFallsThrough(tool) ==
    CASE tool = Rsvg   -> "cairo"
      [] tool = Cairo  -> "magick"
      [] tool = Magick -> "main"

\* "return png_file" after the tool's success message
AfterSuccess(tool) == "main"

\* a failed rsvg-convert skips cairosvg
NextCandidateSkips(tool) == "magick"

\* the try block entered after the except clause of tool's block
NextCandidate(tool) ==
    CASE tool = Rsvg  -> "cairo"
      [] tool = Cairo -> "magick"

MainCheckIgnoresFile(r, exists) == r # None

MainCheckEither(r, exists) == r # None \/ exists

\* "if png_file and os.path.exists(png_file)"
MainCheck(r, exists) == r # None /\ exists

----------------------------------------------------------------------------
Init ==
    /\ pc = "rsvg"
    /\ outcome \in {o \in [Tools -> SubprocessOutcomes \cup CairoOutcomes] :
                        /\ o[Rsvg] \in SubprocessOutcomes
                        /\ o[Cairo] \in CairoOutcomes
                        /\ o[Magick] \in SubprocessOutcomes}
    /\ fileExists \in BOOLEAN
    /\ produced = {}
    /\ attempted = <<>>
    /\ output = <<>>
    /\ ret = None
    /\ uncaught = "none"
    /\ exitStatus = -1

\* The converter is invoked and possibly writes the output file.
Invoke(tool) ==
    /\ attempted' = Append(attempted, tool)
    /\ \E w \in MayWrite(outcome[tool]) :
          /\ fileExists' = (fileExists \/ w)
          /\ produced' = IF w THEN produced \cup {tool} ELSE produced

\* An exception no except clause matches leaves the function and the script:
\* the interpreter prints a traceback on stderr and exits with status 1.
Escapes(tool) ==
    /\ uncaught' = outcome[tool]
    /\ exitStatus' = 1
    /\ pc' = "done"
    /\ UNCHANGED <<output, ret>>

\* First or second try block: tool is rsvg-convert or cairosvg.
TryWithFallback(tool) ==
    /\ Invoke(tool)
    /\ IF outcome[tool] = "ok"
         THEN /\ output' = Append(output, SuccessMsg(tool))
              /\ ret' = png_file
              /\ pc' = AfterSuccess(tool)
              /\ UNCHANGED <<uncaught, exitStatus>>
         ELSE IF Caught(tool, outcome[tool])
              THEN /\ output' = Append(output, FallThroughMsg(tool))
                   /\ pc' = NextCandidate(tool)
                   /\ UNCHANGED <<ret, uncaught, exitStatus>>
              ELSE Escapes(tool)
    /\ UNCHANGED outcome

TryRsvg ==
    /\ pc = "rsvg"
    /\ TryWithFallback(Rsvg)

TryCairosvg ==
    /\ pc = "cairo"
    /\ TryWithFallback(Cairo)

TryImageMagick ==
    /\ pc = "magick"
    /\ Invoke(Magick)
    /\ IF outcome[Magick] = "ok"
         THEN /\ output' = Append(output, SuccessMsg(Magick))
              /\ ret' = png_file
              /\ pc' = AfterSuccess(Magick)
              /\ UNCHANGED <<uncaught, exitStatus>>
         ELSE IF Caught(Magick, outcome[Magick])
              THEN /\ output' = output \o <<NoSuitableMsg, PleaseInstallMsg>>
                   /\ ret' = None
                   /\ pc' = "main"
                   /\ UNCHANGED <<uncaught, exitStatus>>
              ELSE Escapes(Magick)
    /\ UNCHANGED outcome

Main ==
    /\ pc = "main"
    /\ IF MainCheck(ret, fileExists)
         THEN /\ output' = output \o <<FinalSuccessMsg, XcodeHintMsg>>
              /\ exitStatus' = 0
         ELSE /\ output' = Append(output, FailedMsg)
              /\ exitStatus' = 1
    /\ pc' = "done"
    /\ UNCHANGED <<outcome, fileExists, produced, attempted, ret, uncaught>>

Next ==
    \/ TryRsvg
    \/ TryCairosvg
    \/ TryImageMagick
    \/ Main

Spec == Init /\ [][Next]_vars

----------------------------------------------------------------------------
\* Vocabulary of the properties

Done == pc = "done"

InvokedTools == {attempted[i] : i \in 1..Len(attempted)}

\* the line a successful attempt of tool t is expected to print
CreatedLine(t) ==
    CASE t = "rsvg-convert" -> "Created robot_icon_1024.png using rsvg-convert"
      [] t = "cairosvg"     -> "Created robot_icon_1024.png using cairosvg"
      [] t = "ImageMagick"  -> "Created robot_icon_1024.png using ImageMagick"

CreatedLines == {CreatedLine(t) : t \in Tools}

CreatedPositions == {i \in 1..Len(output) : output[i] \in CreatedLines}

SomeAttemptSucceeded == \E i \in 1..Len(attempted) : outcome[attempted[i]] = "ok"

AllConvertersFail == \A t \in Tools : outcome[t] # "ok"

RsvgNotice == "rsvg-convert not found, trying cairosvg..."

CairoNotice == "cairosvg not available, trying ImageMagick..."

Count(m) == Cardinality({i \in 1..Len(output) : output[i] = m})

----------------------------------------------------------------------------
\* C1: whatever way a converter fails, the next candidate is attempted: in a
\* finished run every converter whose predecessors all fail has been invoked;
\* in particular ImageMagick is invoked when rsvg-convert fails and
\* cairosvg.svg2png raises.
C1_EveryFailureFallsThrough ==
    Done =>
        /\ \A i \in 1..3 :
              (\A j \in 1..(i - 1) : outcome[Order[j]] # "ok") => Order[i] \in InvokedTools
        /\ (outcome[Rsvg] # "ok" /\ outcome[Cairo] = "Svg2PngError") => Magick \in InvokedTools

\* C2: when all three converters fail, the finished run has printed the
\* "No suitable SVG to PNG converter found" message and exits with status 1,
\* whether or not the output file is on disk.
C2_TotalFailureReported ==
    (Done /\ AllConvertersFail) => (Printed(NoSuitableMsg) /\ exitStatus = 1)

\* C3: a finished run exits with 0 exactly when some attempt succeeded and the
\* output file exists at the final check, and with 1 otherwise; an exit
\* status 0 comes with the file on disk and the final success message printed.
C3_ExitStatus ==
    Done =>
        /\ exitStatus \in {0, 1}
        /\ (exitStatus = 0) <=> (SomeAttemptSucceeded /\ fileExists)
        /\ (exitStatus = 0) => (fileExists /\ Printed(FinalSuccessMsg))

C3_Witness ==
    /\ Done
    /\ exitStatus = 0
    /\ attempted = <<Rsvg, Cairo>>
    /\ fileExists

\* C4: when an attempt reported success (tool success line printed, output
\* path returned) but the output file is absent at the final check, the run
\* exits with status 1 and never prints the final success message.
C4_FinalCheckAuthoritative ==
    (Done /\ CreatedPositions # {} /\ ret = png_file /\ ~fileExists)
        => (exitStatus = 1 /\ ~Printed(FinalSuccessMsg))

C4_Witness ==
    /\ Done
    /\ CreatedPositions # {}
    /\ ret = png_file
    /\ ~fileExists
    /\ Printed(FailedMsg)

\* C5: once rsvg-convert has succeeded it is the only converter invoked and
\* the tool success line names rsvg-convert; in general a successful attempt
\* is the last attempt of the run.
C5_SuccessStopsTheChain ==
    /\ (attempted # <<>> /\ outcome[Rsvg] = "ok") =>
          /\ attempted = <<Rsvg>>
          /\ Printed("Created robot_icon_1024.png using rsvg-convert")
          /\ \A m \in CreatedLines :
                Printed(m) => m = "Created robot_icon_1024.png using rsvg-convert"
    /\ \A i \in 1..Len(attempted) :
          outcome[attempted[i]] = "ok" => i = Len(attempted)

C5_Witness ==
    /\ Done
    /\ outcome[Rsvg] = "ok"
    /\ outcome[Cairo] = "ok"
    /\ outcome[Magick] = "ok"
    /\ attempted = <<Rsvg>>

\* C6: when rsvg-convert and cairosvg are absent or failing and ImageMagick
\* succeeds, the finished run has invoked ImageMagick, printed the ImageMagick
\* success line and, the file existing, exited with status 0.
C6_ThirdCandidateReached ==
    (Done /\ outcome[Rsvg] # "ok" /\ outcome[Cairo] # "ok" /\ outcome[Magick] = "ok")
        => /\ Magick \in InvokedTools
           /\ Printed("Created robot_icon_1024.png using ImageMagick")
           /\ fileExists => exitStatus = 0

\* C7: converters are invoked in the fixed order rsvg-convert, cairosvg,
\* ImageMagick, none twice, and each only after every earlier one has been
\* invoked and has failed.
C7_FixedOrderNoRetry ==
    /\ Len(attempted) <= Len(Order)
    /\ \A i \in 1..Len(attempted) : attempted[i] = Order[i]
    /\ \A i, j \in 1..Len(attempted) : attempted[i] = attempted[j] => i = j
    /\ \A i \in 1..Len(attempted) : \A j \in 1..(i - 1) : outcome[attempted[j]] # "ok"

C7_Witness ==
    /\ Done
    /\ attempted = <<Rsvg, Cairo, Magick>>

\* C8: a finished run in which no converter wrote the output file exits with
\* a non-zero status, also when a file of an earlier run is on disk.
C8_NothingProducedExitsNonZero ==
    (Done /\ produced = {}) => exitStatus # 0

\* C9 (as stated): a failed candidate is passed over without any printed
\* line; the only lines a run prints are tool success lines, the final
\* lines of __main__ and the total-failure message, the latter only when all
\* three converters were invoked and failed, in a run that exits non-zero.
C9_FailuresAreSilent ==
    /\ \A i \in 1..Len(output) :
          output[i] \in CreatedLines \cup
              {NoSuitableMsg, PleaseInstallMsg, FinalSuccessMsg, XcodeHintMsg, FailedMsg}
    /\ Printed(NoSuitableMsg) => (attempted = Order /\ AllConvertersFail)
    /\ (Done /\ Printed(NoSuitableMsg)) => exitStatus # 0

\* C9 (amended): a candidate whose failure is caught is passed over with one
\* printed notice: "rsvg-convert not found, trying cairosvg..." exactly when
\* rsvg-convert was invoked and raised CalledProcessError or
\* FileNotFoundError, "cairosvg not available, trying ImageMagick..." exactly
\* when cairosvg was tried and its import raised ImportError; the total-failure
\* message is printed only when all three were invoked and failed, and that
\* run exits non-zero.
C9_FailuresAreAnnounced ==
    /\ Printed(RsvgNotice) <=>
          (Rsvg \in InvokedTools /\ outcome[Rsvg] \in {"CalledProcessError", "FileNotFoundError"})
    /\ Printed(CairoNotice) <=>
          (Cairo \in InvokedTools /\ outcome[Cairo] = "ImportError")
    /\ Count(RsvgNotice) <= 1
    /\ Count(CairoNotice) <= 1
    /\ Printed(NoSuitableMsg) => (attempted = Order /\ AllConvertersFail)
    /\ (Done /\ Printed(NoSuitableMsg)) => exitStatus # 0

C9_Witness ==
    /\ Done
    /\ output = <<RsvgNotice, CairoNotice, NoSuitableMsg, PleaseInstallMsg, FailedMsg>>
    /\ exitStatus = 1

\* C10: at most one tool success line is printed and it names the converter
\* of the last attempt, which succeeded; the final success message is
\* preceded by a tool success line; the total-failure message and a tool
\* success line never appear in the same run.
C10_MessagesConsistent ==
    /\ Cardinality(CreatedPositions) <= 1
    /\ \A t \in Tools :
          Printed(CreatedLine(t)) =>
              /\ attempted # <<>>
              /\ attempted[Len(attempted)] = t
              /\ outcome[t] = "ok"
    /\ \A j \in 1..Len(output) :
          output[j] = FinalSuccessMsg => \E i \in CreatedPositions : i < j
    /\ ~(Printed(NoSuitableMsg) /\ CreatedPositions # {})

C10_Witness ==
    /\ Done
    /\ output = <<RsvgNotice, "Created robot_icon_1024.png using cairosvg",
                  FinalSuccessMsg, XcodeHintMsg>>

====
